---- MODULE Spec2Model ----
(***************************************************************************)
(* A model of the ArmA Reforger server launcher (src/src/main.rs), Windows *)
(* build: the LauncherApp state, its handlers (Change, Refresh, Filter,    *)
(* click, double click, Browse config, Set server folder, Launch) and the  *)
(* environment they touch (the file system, the persisted settings.json,   *)
(* the file dialogs, the process spawn).                                   *)
(*                                                                         *)
(* Representation.  A character is a one-character string; the unpaired    *)
(* surrogate a Windows file name may hold is the character "<D800>" and    *)
(* U+FFFD is "<FFFD>".  A String is a sequence of text fragments           *)
(* (characters or literals), concatenated with \o.  An OsStr (a path       *)
(* component) is a sequence of characters.  A PathBuf is a sequence of     *)
(* components.  Option<T> is a sequence of length 0 (None) or 1 (Some).    *)
(* Indices into available_configs are 0-based as in the source.            *)
(***************************************************************************)
EXTENDS Integers, Sequences, FiniteSets, TLC

\* ------------------------------------------------------------ Option<T>

None == <<>>

Some(x) == <<x>>

IsSome(o) == Len(o) = 1

Unwrap(o) == o[1]

\* ------------------------------------------------------------ characters

Upper == <<"A", "B", "C", "D", "E", "F", "G", "H", "I", "J", "K", "L", "M",
           "N", "O", "P", "Q", "R", "S", "T", "U", "V", "W", "X", "Y", "Z">>

Lower == <<"a", "b", "c", "d", "e", "f", "g", "h", "i", "j", "k", "l", "m",
           "n", "o", "p", "q", "r", "s", "t", "u", "v", "w", "x", "y", "z">>

Surrogate == "<D800>"

Replacement == "<FFFD>"

Sep == "\\"

Others == {" ", ".", Sep, Surrogate, Replacement}

CharSet == {Upper[i] : i \in DOMAIN Upper} \cup {Lower[i] : i \in DOMAIN Lower} \cup Others

\* The code point of a character (the order of WTF-8 byte strings is the
\* order of their code point sequences).
CodePoint ==
  [c \in CharSet |->
     IF \E i \in DOMAIN Upper : Upper[i] = c
       THEN 64 + (CHOOSE i \in DOMAIN Upper : Upper[i] = c)
     ELSE IF \E i \in DOMAIN Lower : Lower[i] = c
       THEN 96 + (CHOOSE i \in DOMAIN Lower : Lower[i] = c)
     ELSE IF c = " " THEN 32
     ELSE IF c = "." THEN 46
     ELSE IF c = Sep THEN 92
     ELSE IF c = Surrogate THEN 55296
     ELSE 65533]

\* u8::to_ascii_lowercase / char::to_lowercase on the characters of CharSet.
LowerChar ==
  [c \in CharSet |->
     IF \E i \in DOMAIN Upper : Upper[i] = c
       THEN Lower[CHOOSE i \in DOMAIN Upper : Upper[i] = c]
       ELSE c]

to_lowercase(s) == [i \in DOMAIN s |-> LowerChar[s[i]]]

eq_ignore_ascii_case(a, b) == to_lowercase(a) = to_lowercase(b)

IsUnicode(s) == \A i \in DOMAIN s : s[i] # Surrogate

\* String::from_utf8_lossy as Path::display applies it.
Lossy(s) == [i \in DOMAIN s |-> IF s[i] = Surrogate THEN Replacement ELSE s[i]]

\* ------------------------------------------------------------ paths

RECURSIVE JoinComponents(_)
JoinComponents(p) ==
  IF Len(p) = 0 THEN <<>>
  ELSE IF Len(p) = 1 THEN p[1]
  ELSE p[1] \o <<Sep>> \o JoinComponents(Tail(p))

\* Path::display().to_string()
Display(p) == Lossy(JoinComponents(p))

\* Path::to_str(): None when the path is not valid Unicode.
to_str(p) == IF IsUnicode(JoinComponents(p)) THEN Some(JoinComponents(p)) ELSE None

\* PathBuf::from(String): the components between separators.
RECURSIVE SplitFrom(_, _)
SplitFrom(s, acc) ==
  IF Len(s) = 0 THEN (IF Len(acc) = 0 THEN <<>> ELSE <<acc>>)
  ELSE IF Head(s) = Sep
    THEN (IF Len(acc) = 0 THEN <<>> ELSE <<acc>>) \o SplitFrom(Tail(s), <<>>)
    ELSE SplitFrom(Tail(s), Append(acc, Head(s)))

PathFromString(s) == SplitFrom(s, <<>>)

Join(dir, name) == Append(dir, name)

Parent(p) == SubSeq(p, 1, Len(p) - 1)

\* Path::file_name(): the last component.
file_name(p) == IF Len(p) = 0 THEN None ELSE Some(p[Len(p)])

LastDot(name) ==
  IF \E i \in DOMAIN name : name[i] = "."
    THEN CHOOSE i \in DOMAIN name : name[i] = "." /\ \A j \in DOMAIN name : name[j] = "." => j <= i
    ELSE 0

\* Path::extension(): what follows the last dot of the file name; None when
\* there is no dot, or the only dot is the first character.
extension(p) ==
  IF Len(p) = 0 THEN None
  ELSE LET name == p[Len(p)]
           d == LastDot(name)
       IN  IF d <= 1 THEN None ELSE Some(SubSeq(name, d + 1, Len(name)))

RECURSIVE OsStrCmp_caseless(_, _)
\* OsStrCmp, were it to ignore the case of letters.
OsStrCmp_caseless(a, b) ==
  IF Len(a) = 0 /\ Len(b) = 0 THEN 0
  ELSE IF Len(a) = 0 THEN -1
  ELSE IF Len(b) = 0 THEN 1
  ELSE IF CodePoint[LowerChar[Head(a)]] < CodePoint[LowerChar[Head(b)]] THEN -1
  ELSE IF CodePoint[LowerChar[Head(a)]] > CodePoint[LowerChar[Head(b)]] THEN 1
  ELSE OsStrCmp_caseless(Tail(a), Tail(b))

\* Ord for OsStr: byte-wise, which is code point by code point.
RECURSIVE OsStrCmp(_, _)
OsStrCmp(a, b) ==
  IF Len(a) = 0 /\ Len(b) = 0 THEN 0
  ELSE IF Len(a) = 0 THEN -1
  ELSE IF Len(b) = 0 THEN 1
  ELSE IF CodePoint[Head(a)] < CodePoint[Head(b)] THEN -1
  ELSE IF CodePoint[Head(a)] > CodePoint[Head(b)] THEN 1
  ELSE OsStrCmp(Tail(a), Tail(b))

\* Ord for Path: component by component.
RECURSIVE PathCmp(_, _)
PathCmp(p, q) ==
  IF Len(p) = 0 /\ Len(q) = 0 THEN 0
  ELSE IF Len(p) = 0 THEN -1
  ELSE IF Len(q) = 0 THEN 1
  ELSE LET c == OsStrCmp(Head(p), Head(q))
       IN  IF c # 0 THEN c ELSE PathCmp(Tail(p), Tail(q))

RECURSIVE Insert(_, _)
Insert(sorted, p) ==
  IF Len(sorted) = 0 THEN <<p>>
  ELSE IF PathCmp(p, Head(sorted)) < 0 THEN <<p>> \o sorted
  ELSE <<Head(sorted)>> \o Insert(Tail(sorted), p)

\* refresh_configs, were it to leave out the sort.
sort_missing(v) == v

\* Vec<PathBuf>::sort()
RECURSIVE sort(_)
sort(v) == IF Len(v) = 0 THEN <<>> ELSE Insert(sort(SubSeq(v, 1, Len(v) - 1)), v[Len(v)])

\* Vec::contains, were it to find nothing.
Contains_never(v, p) == FALSE

Contains(v, p) == \E i \in DOMAIN v : v[i] = p

\* Iterator::position: the 0-based index of the first element equal to p.
position(v, p) ==
  IF Contains(v, p)
    THEN Some((CHOOSE i \in DOMAIN v : v[i] = p /\ \A j \in DOMAIN v : v[j] = p => i <= j) - 1)
    ELSE None

\* ------------------------------------------------------------ program constants

DEFAULT_CONFIGS_DIR == <<"c", "o", "n", "f", "i", "g", "s">>

SERVER_EXE == <<"A", "r", "m", "a", "R", "e", "f", "o", "r", "g", "e", "r",
                "S", "e", "r", "v", "e", "r", ".", "e", "x", "e">>

FIXED_ARGS == << <<"-maxFPS">>, <<"120">> >>

JsonExt == <<"j", "s", "o", "n">>

\* AppSettings::default()
DefaultSettings == [last_config |-> None, server_dir |-> None]

\* ------------------------------------------------------------ environment

\* The directory of the running launcher binary (current_exe().parent()).
ExeDir == << <<"s", "r", "v">> >>

ConfigsDir == Join(ExeDir, DEFAULT_CONFIGS_DIR)

a_json == <<"a", ".", "j", "s", "o", "n">>

B_JSON == <<"B", ".", "J", "S", "O", "N">>

\* A file name that is not valid Unicode (an unpaired surrogate).
u_json == <<Surrogate, ".", "j", "s", "o", "n">>

c_txt == <<"c", ".", "t", "x", "t">>

notes_md == <<"n", "o", "t", "e", "s", ".", "m", "d">>

\* A subdirectory whose name ends in .json (it holds a file a_json).
sub_json == <<"s", "u", "b", ".", "j", "s", "o", "n">>

\* The directories the model's file system may hold besides ExeDir.
DirUniverse == {ConfigsDir, Join(ConfigsDir, sub_json)}

\* The entries the file system of the launcher runs may hold.
Universe ==
  {ConfigsDir, Join(ExeDir, SERVER_EXE), Join(ConfigsDir, SERVER_EXE)}
    \cup {Join(ConfigsDir, n) : n \in {a_json, u_json}}

\* The entries the file system of the scan runs may hold.
ScanUniverse ==
  {ConfigsDir}
    \cup {Join(ConfigsDir, n) : n \in {a_json, B_JSON, c_txt, notes_md, sub_json}}
    \cup {Join(Join(ConfigsDir, sub_json), a_json)}

WellFormed(f) == \A p \in f : Parent(p) = ExeDir \/ Parent(p) \in f

\* What the OS answers a failed spawn with.
OsErrors == { <<"Access is denied. (os error 5)">>,
              <<"The system cannot find the file specified. (os error 2)">> }

\* The stored settings.json documents a run may start from.
MissingFile == [kind |-> "missing", last_config |-> None, server_dir |-> None]

GarbageFile == [kind |-> "garbage", last_config |-> None, server_dir |-> None]

JsonFile(l, s) == [kind |-> "json", last_config |-> l, server_dir |-> s]

InitialDisks ==
  {MissingFile, GarbageFile,
   JsonFile(Some(JoinComponents(Join(ConfigsDir, a_json))), None),
   JsonFile(Some(JoinComponents(Join(ConfigsDir, a_json))), Some(JoinComponents(ConfigsDir)))}

\* ------------------------------------------------------------ state

VARIABLES
  settings,           \* LauncherApp.settings: AppSettings
  configs_dir,        \* LauncherApp.configs_dir
  available_configs,  \* LauncherApp.available_configs
  filter,             \* LauncherApp.filter
  selected_idx,       \* LauncherApp.selected_idx: Option<usize>
  status,             \* LauncherApp.status
  crashed,            \* the process has panicked
  disk,               \* the stored settings.json
  has_project_dirs,   \* ProjectDirs::from(..) is Some
  writable,           \* fs::write to settings.json succeeds
  fs,                 \* the existing file system entries
  unreadable,         \* the directories fs::read_dir fails on
  calls,              \* the external calls the last handler made, in order
  spawned             \* the command the last handler spawned: Option

vars == <<settings, configs_dir, available_configs, filter, selected_idx, status,
          crashed, disk, has_project_dirs, writable, fs, unreadable, calls, spawned>>

\* ------------------------------------------------------------ settings store

\* Serialize for Option<PathBuf>: null, a string, or an error when the path
\* is not valid Unicode.  Some(field) on success, None on error.
SerializeField(o) ==
  IF ~IsSome(o) THEN Some(None)
  ELSE IF IsSome(to_str(Unwrap(o))) THEN Some(to_str(Unwrap(o)))
  ELSE None

\* serde_json::to_string_pretty(&settings): Some(document) or None (Err).
to_string_pretty(s) ==
  IF IsSome(SerializeField(s.last_config)) /\ IsSome(SerializeField(s.server_dir))
    THEN Some(JsonFile(Unwrap(SerializeField(s.last_config)),
                       Unwrap(SerializeField(s.server_dir))))
    ELSE None

DeserializeField(o) == IF IsSome(o) THEN Some(PathFromString(Unwrap(o))) ELSE None

\* fs::read_to_string followed by serde_json::from_str::<AppSettings>
from_str(d) ==
  IF d.kind = "json"
    THEN Some([last_config |-> DeserializeField(d.last_config),
               server_dir |-> DeserializeField(d.server_dir)])
    ELSE None

load_settings(pd, d) ==
  IF pd /\ IsSome(from_str(d)) THEN Unwrap(from_str(d)) ELSE DefaultSettings

\* save_settings: what it leaves behind.  The serialization result is
\* unwrapped before fs::write runs, so an Err panics; the result of
\* create_dir_all and of fs::write is dropped (write_ok tells whether the
\* document reached the disk).
save_settings(s, d, pd, write_ok) ==
  IF ~pd THEN [crashed |-> FALSE, disk |-> d, calls |-> <<"save_settings">>]
  ELSE IF ~IsSome(to_string_pretty(s))
    THEN [crashed |-> TRUE, disk |-> d, calls |-> <<"save_settings", "panic">>]
  ELSE [crashed |-> FALSE,
        disk |-> IF write_ok THEN Unwrap(to_string_pretty(s)) ELSE d,
        calls |-> <<"save_settings", "fs::write">>]

\* ------------------------------------------------------------ server location

exe_dir == ExeDir

\* detect_server_dir, were it to ignore the server folder of the settings.
detect_server_dir_exe_only(s) == exe_dir

detect_server_dir(s) == IF IsSome(s.server_dir) THEN Unwrap(s.server_dir) ELSE exe_dir

server_exe_path(s) == Join(detect_server_dir(s), SERVER_EXE)

\* ------------------------------------------------------------ config catalog

Children(f, dir) == {p \in f : Len(p) = Len(dir) + 1 /\ Parent(p) = dir}

RECURSIVE Enumerations(_)
\* The sequences that list every element of S once.
Enumerations(S) ==
  IF S = {} THEN {<<>>}
  ELSE UNION {{<<x>> \o e : e \in Enumerations(S \ {x})} : x \in S}

\* What the loop over fs::read_dir(dir) may see: the children in any order,
\* nothing when the directory is missing or cannot be read.
ReadDir(f, unr, dir) ==
  IF dir \in f /\ dir \notin unr THEN Enumerations(Children(f, dir)) ELSE {<<>>}

HasJsonExtension(p) ==
  IF IsSome(extension(p)) THEN eq_ignore_ascii_case(Unwrap(extension(p)), JsonExt) ELSE FALSE

RECURSIVE PushMatching(_)
PushMatching(listing) ==
  IF Len(listing) = 0 THEN <<>>
  ELSE IF HasJsonExtension(Head(listing))
    THEN <<Head(listing)>> \o PushMatching(Tail(listing))
    ELSE PushMatching(Tail(listing))

\* The scan status, were it to leave out the directory.
ScanStatus_no_dir(dir, found) ==
  IF Len(found) = 0 THEN <<"No .json configs found">> ELSE <<>>

ScanStatus(dir, found) ==
  IF Len(found) = 0 THEN <<"No .json configs found in ">> \o Display(dir) ELSE <<>>

\* refresh_configs, given what read_dir lists: the new available_configs
\* and status.
refresh_configs(dir, listing) ==
  LET found == sort(PushMatching(listing))
  IN  [available_configs |-> found, status |-> ScanStatus(dir, found)]

trim(s) ==
  IF \A i \in DOMAIN s : s[i] = " " THEN <<>>
  ELSE LET first == CHOOSE i \in DOMAIN s : s[i] # " " /\ \A j \in 1..(i - 1) : s[j] = " "
           last == CHOOSE i \in DOMAIN s : s[i] # " " /\ \A j \in (i + 1)..Len(s) : s[j] = " "
       IN  SubSeq(s, first, last)

\* str::contains
contains(hay, needle) ==
  \E k \in 0..(Len(hay) - Len(needle)) : SubSeq(hay, k + 1, k + Len(needle)) = needle

\* file_name().and_then(|s| s.to_str()).unwrap_or_default().to_lowercase()
LowerName(p) ==
  IF IsSome(file_name(p)) /\ IsUnicode(Unwrap(file_name(p)))
    THEN to_lowercase(Unwrap(file_name(p)))
    ELSE <<>>

RECURSIVE FilterMap(_, _, _)
FilterMap(v, f, i) ==
  IF i > Len(v) THEN <<>>
  ELSE IF contains(LowerName(v[i]), f)
    THEN <<i - 1>> \o FilterMap(v, f, i + 1)
    ELSE FilterMap(v, f, i + 1)

filtered_indices(flt, v) ==
  IF Len(trim(flt)) = 0 THEN [i \in 1..Len(v) |-> i - 1]
  ELSE FilterMap(v, to_lowercase(flt), 1)

\* ------------------------------------------------------------ launch

RECURSIVE JoinWith(_, _)
\* [String]::join(sep)
JoinWith(tokens, sep) ==
  IF Len(tokens) = 0 THEN <<>>
  ELSE IF Len(tokens) = 1 THEN tokens[1]
  ELSE tokens[1] \o sep \o JoinWith(Tail(tokens), sep)

\* args: the fixed arguments, then -config, then the config path as text.
BuildArgs(config_path) ==
  Append(Append(FIXED_ARGS, <<"-config">>), Display(config_path))

\* full_args: the executable as text, then args.
BuildFullArgs(server_exe, config_path) ==
  <<Display(server_exe)>> \o BuildArgs(config_path)

\* Command::new("cmd") .current_dir(..) .arg("/c") .arg("start") .arg("") .args(&full_args)
BuildCommand(server_exe, config_path) ==
  [program |-> <<"cmd">>,
   current_dir |-> Parent(server_exe),
   args |-> << <<"/c">>, <<"start">>, <<>> >> \o BuildFullArgs(server_exe, config_path)]

LaunchedStatus(server_exe, config_path) ==
  <<"Launched:\n">> \o Display(server_exe) \o <<" ">> \o JoinWith(BuildArgs(config_path), <<" ">>)

NotFoundStatus(server_exe) ==
  <<"Server exe not found: ">> \o Display(server_exe) \o <<"\nSet the correct server directory.">>

\* The failure status, were it to drop the OS error.
FailedStatus_no_message(e) == <<"Failed to launch">>

FailedStatus(e) == <<"Failed to launch: ">> \o e

NoSelectionStatus == <<"Select a config first.">>

\* The out-of-range branch, were it to reuse the no-selection message.
InvalidSelectionStatus_reused == <<"Select a config first.">>

InvalidSelectionStatus == <<"Invalid selection.">>

\* The existence check, were it to pass always.
Exists_always(f, p) == TRUE

\* server_exe.exists()
Exists(f, p) == p \in f

\* launch_selected with the selection sel in force (Windows build: the
\* spawn is compiled under cfg(windows)).  spawn_result is None for Ok and
\* Some(message) for Err.
launch_selected(sel, spawn_result) ==
  LET server_exe == server_exe_path(settings)
  IN  IF ~IsSome(sel)
        THEN /\ status' = NoSelectionStatus
             /\ calls' = <<>>
             /\ spawned' = None
             /\ UNCHANGED <<settings, disk, crashed>>
      ELSE IF Unwrap(sel) >= Len(available_configs)
        THEN /\ status' = InvalidSelectionStatus
             /\ calls' = <<>>
             /\ spawned' = None
             /\ UNCHANGED <<settings, disk, crashed>>
      ELSE IF ~Exists(fs, server_exe)
        THEN /\ status' = NotFoundStatus(server_exe)
             /\ calls' = <<"server_exe.exists">>
             /\ spawned' = None
             /\ UNCHANGED <<settings, disk, crashed>>
      ELSE LET config_path == available_configs[Unwrap(sel) + 1]
               launched == [settings EXCEPT !.last_config = Some(config_path)]
               saved == save_settings(launched, disk, has_project_dirs, writable)
           IN  /\ spawned' = Some(BuildCommand(server_exe, config_path))
               /\ IF ~IsSome(spawn_result)
                    THEN /\ status' = LaunchedStatus(server_exe, config_path)
                         /\ settings' = launched
                         /\ disk' = saved.disk
                         /\ crashed' = saved.crashed
                         /\ calls' = <<"server_exe.exists", "spawn", "Ok">> \o saved.calls
                    ELSE /\ status' = FailedStatus(Unwrap(spawn_result))
                         /\ calls' = <<"server_exe.exists", "spawn", "Err">> \o Unwrap(spawn_result)
                         /\ UNCHANGED <<settings, disk, crashed>>

SpawnResults == {None} \cup {Some(e) : e \in OsErrors}

\* ------------------------------------------------------------ command preview

RECURSIVE PushArgs(_)
\* for a in FIXED_ARGS { preview.push(' '); preview.push_str(a); }
PushArgs(tokens) ==
  IF Len(tokens) = 0 THEN <<>>
  ELSE <<" ">> \o tokens[1] \o PushArgs(Tail(tokens))

\* The preview, were it to leave out the quotes around the config path.
Preview_unquoted(s, v, sel) ==
  IF IsSome(sel) /\ Unwrap(sel) < Len(v)
    THEN Some(Display(server_exe_path(s)) \o PushArgs(FIXED_ARGS)
                \o <<" ", "-config", " ">> \o Display(v[Unwrap(sel) + 1]))
    ELSE None

\* The command preview update() shows: Some(text), or None when nothing is
\* shown.  The literal " -config " is written as its three parts.
Preview(s, v, sel) ==
  IF IsSome(sel) /\ Unwrap(sel) < Len(v)
    THEN Some(Display(server_exe_path(s)) \o PushArgs(FIXED_ARGS)
                \o <<" ", "-config", " ">>
                \o <<"\"">> \o Display(v[Unwrap(sel) + 1]) \o <<"\"">>)
    ELSE None

\* ------------------------------------------------------------ startup

\* new(), were it to leave out the selection of the last used config.
new_no_autoselect(pd, d, listing) ==
  LET loaded == load_settings(pd, d)
      dir == Join(exe_dir, DEFAULT_CONFIGS_DIR)
      scan == refresh_configs(dir, listing)
  IN  /\ settings = loaded
      /\ configs_dir = dir
      /\ available_configs = scan.available_configs
      /\ filter = <<>>
      /\ status = scan.status
      /\ selected_idx = None
      /\ crashed = FALSE
      /\ calls = <<"read_to_string", "read_dir">>
      /\ spawned = None

\* LauncherApp::new(): the state the launcher starts in, given the stored
\* settings and what read_dir lists.
new(pd, d, listing) ==
  LET loaded == load_settings(pd, d)
      dir == Join(exe_dir, DEFAULT_CONFIGS_DIR)
      scan == refresh_configs(dir, listing)
  IN  /\ settings = loaded
      /\ configs_dir = dir
      /\ available_configs = scan.available_configs
      /\ filter = <<>>
      /\ status = scan.status
      /\ selected_idx = IF IsSome(loaded.last_config)
                          THEN position(scan.available_configs, Unwrap(loaded.last_config))
                          ELSE None
      /\ crashed = FALSE
      /\ calls = <<"read_to_string", "read_dir">>
      /\ spawned = None

\* The launcher started in an environment: the entries of U that exist, the
\* stored settings, whether the settings location is known and writable.
Startup(U, PD, W) ==
  \E f \in SUBSET U, pd \in PD, w \in W, d \in InitialDisks :
    /\ WellFormed(f)
    /\ fs = f
    /\ unreadable = {}
    /\ has_project_dirs = pd
    /\ writable = w
    /\ disk = d
    /\ \E listing \in ReadDir(f, {}, Join(exe_dir, DEFAULT_CONFIGS_DIR)) :
         new(pd, d, listing)

Init == Startup(Universe, {TRUE}, {TRUE})

\* ------------------------------------------------------------ handlers
\* A dialog that is cancelled returns None and its handler changes nothing:
\* that is a stuttering step, so the handlers below start from a returned
\* path.

env == <<disk, has_project_dirs, writable, fs, unreadable>>

\* The folders a folder dialog can return.
Folders == {ExeDir} \cup (fs \cap DirUniverse)

\* The files the file dialog returns: those its "JSON" filter shows.
Files == {p \in fs \ DirUniverse : HasJsonExtension(p)}

\* "Change..." next to the configs directory.
ChangeConfigsDir ==
  /\ ~crashed
  /\ \E dir \in Folders :
       \E listing \in ReadDir(fs, unreadable, dir) :
         /\ configs_dir' = dir
         /\ available_configs' = refresh_configs(dir, listing).available_configs
         /\ status' = refresh_configs(dir, listing).status
  /\ selected_idx' = None
  /\ calls' = <<"pick_folder", "read_dir">>
  /\ spawned' = None
  /\ UNCHANGED <<settings, filter, crashed, env>>

\* Refresh, were it to add the scan to the list it had.
Refresh_merging ==
  /\ ~crashed
  /\ \E listing \in ReadDir(fs, unreadable, configs_dir) :
       /\ available_configs' = available_configs
                                 \o refresh_configs(configs_dir, listing).available_configs
       /\ status' = refresh_configs(configs_dir, listing).status
  /\ calls' = <<"read_dir">>
  /\ spawned' = None
  /\ UNCHANGED <<settings, configs_dir, filter, selected_idx, crashed, env>>

\* "Refresh"
Refresh ==
  /\ ~crashed
  /\ \E listing \in ReadDir(fs, unreadable, configs_dir) :
       /\ available_configs' = refresh_configs(configs_dir, listing).available_configs
       /\ status' = refresh_configs(configs_dir, listing).status
  /\ calls' = <<"read_dir">>
  /\ spawned' = None
  /\ UNCHANGED <<settings, configs_dir, filter, selected_idx, crashed, env>>

\* The texts typed into the filter box.
Queries == {<<>>, <<" ">>, <<"B">>, <<"j", "s">>, <<" ", "a">>}

\* Typing in the filter box, and "Clear".
EditFilter ==
  /\ ~crashed
  /\ \E q \in Queries : filter' = q
  /\ calls' = <<>>
  /\ spawned' = None
  /\ UNCHANGED <<settings, configs_dir, available_configs, selected_idx, status, crashed, env>>

\* The rows the list shows.
Rows == {filtered_indices(filter, available_configs)[k] :
           k \in DOMAIN filtered_indices(filter, available_configs)}

\* A click on a row of the list.
Click ==
  /\ ~crashed
  /\ \E idx \in Rows : selected_idx' = Some(idx)
  /\ calls' = <<>>
  /\ spawned' = None
  /\ UNCHANGED <<settings, configs_dir, available_configs, filter, status, crashed, env>>

\* A double click on a row of the list: select it and launch.
DoubleClick ==
  /\ ~crashed
  /\ \E idx \in Rows, r \in SpawnResults :
       /\ selected_idx' = Some(idx)
       /\ launch_selected(Some(idx), r)
  /\ UNCHANGED <<configs_dir, available_configs, filter,
                 has_project_dirs, writable, fs, unreadable>>

\* "Browse config..."
BrowseConfig ==
  /\ ~crashed
  /\ \E file \in Files :
       LET added == IF Contains(available_configs, file)
                      THEN available_configs
                      ELSE Append(available_configs, file)
       IN  /\ available_configs' = added
           /\ selected_idx' = position(added, file)
  /\ calls' = <<"pick_file">>
  /\ spawned' = None
  /\ UNCHANGED <<settings, configs_dir, filter, status, crashed, env>>

\* "Set server folder..."
SetServerFolder ==
  /\ ~crashed
  /\ \E dir \in Folders :
       LET changed == [settings EXCEPT !.server_dir = Some(dir)]
           saved == save_settings(changed, disk, has_project_dirs, writable)
       IN  /\ settings' = changed
           /\ disk' = saved.disk
           /\ crashed' = saved.crashed
           /\ calls' = <<"pick_folder">> \o saved.calls
  /\ spawned' = None
  /\ UNCHANGED <<configs_dir, available_configs, filter, selected_idx, status,
                 has_project_dirs, writable, fs, unreadable>>

\* "Launch"
Launch ==
  /\ ~crashed
  /\ \E r \in SpawnResults : launch_selected(selected_idx, r)
  /\ UNCHANGED <<configs_dir, available_configs, filter, selected_idx,
                 has_project_dirs, writable, fs, unreadable>>

\* ------------------------------------------------------------ environment steps

app == <<settings, configs_dir, available_configs, filter, selected_idx, status, crashed>>

\* Between two handlers a file of U appears or disappears.
FileChange(U) ==
  /\ ~crashed
  /\ \E p \in U \ DirUniverse :
       /\ Parent(p) = ExeDir \/ Parent(p) \in fs
       /\ fs' = IF p \in fs THEN fs \ {p} ELSE fs \cup {p}
  /\ calls' = <<>>
  /\ spawned' = None
  /\ UNCHANGED <<app, disk, has_project_dirs, writable, unreadable>>

\* Between two handlers a directory becomes unreadable, or readable again.
AccessChange ==
  /\ ~crashed
  /\ \E d \in fs \cap DirUniverse :
       unreadable' = IF d \in unreadable THEN unreadable \ {d} ELSE unreadable \cup {d}
  /\ calls' = <<>>
  /\ spawned' = None
  /\ UNCHANGED <<app, disk, has_project_dirs, writable, fs>>

\* Between two handlers settings.json becomes read-only, or writable again.
StoreChange ==
  /\ ~crashed
  /\ writable' = ~writable
  /\ calls' = <<>>
  /\ spawned' = None
  /\ UNCHANGED <<app, disk, has_project_dirs, fs, unreadable>>

\* ------------------------------------------------------------ specifications

\* The launcher and a file system whose files come and go.
Next ==
  \/ ChangeConfigsDir
  \/ Refresh
  \/ Click
  \/ DoubleClick
  \/ BrowseConfig
  \/ SetServerFolder
  \/ Launch
  \/ FileChange(Universe)

Spec == Init /\ [][Next]_vars

\* The scans of a directory that holds files of other formats and a
\* subdirectory, and may be missing or unreadable.
InitScan == Startup(ScanUniverse, {TRUE}, {TRUE})

NextScan ==
  \/ Refresh
  \/ ChangeConfigsDir
  \/ AccessChange

SpecScan == InitScan /\ [][NextScan]_vars

\* The entries the file system of the filter runs may hold.
FilterUniverse ==
  {ConfigsDir} \cup {Join(ConfigsDir, n) : n \in {a_json, B_JSON, u_json}}

\* The list under a filter the operator edits, rescans and clicks in.
InitFilter == Startup(FilterUniverse, {TRUE}, {TRUE})

NextFilter ==
  \/ EditFilter
  \/ Click
  \/ Refresh
  \/ FileChange(FilterUniverse)

SpecFilter == InitFilter /\ [][NextFilter]_vars

\* The launcher over a settings location that may be unknown, and a
\* settings.json that is read-only at times.
InitStore == Startup(Universe, BOOLEAN, BOOLEAN)

NextStore ==
  \/ Click
  \/ DoubleClick
  \/ Launch
  \/ SetServerFolder
  \/ StoreChange

SpecStore == InitStore /\ [][NextStore]_vars

\* ------------------------------------------------------------ claims

\* The path a selection resolves to: None when there is no selection or the
\* index is out of range.
Resolve(v, sel) ==
  IF IsSome(sel) /\ Unwrap(sel) < Len(v) THEN Some(v[Unwrap(sel) + 1]) ELSE None

\* A step that runs launch_selected.
LaunchStep == Launch \/ DoubleClick

\* A step that rescans.
ScanStep == Refresh \/ ChangeConfigsDir

Count(log, tag) == Cardinality({i \in DOMAIN log : log[i] = tag})

\* The tokens of the spawned command that follow cmd /c start "".
ServerTokens(cmd) == SubSeq(cmd.args, 4, Len(cmd.args))

\* C1: in every reachable state the selection is none or an index strictly
\* less than the length of available_configs.
C1_SelectionInBounds ==
  IsSome(selected_idx) => Unwrap(selected_idx) < Len(available_configs)

\* C2: after a Refresh or a change of the configs directory, a selection
\* that is still present resolves to the path it resolved to before the step.
C2_RescanKeepsResolution ==
  [][(ScanStep /\ IsSome(selected_idx'))
       => Resolve(available_configs', selected_idx') = Resolve(available_configs, selected_idx)]_vars

\* C3: a launch whose spawn succeeds makes exactly one save, and the saved
\* and in-memory record has last_config equal to the config path passed to
\* the spawned process and server_dir as it was before the launch.
C3_SuccessfulLaunchSavesOnce ==
  [][(LaunchStep /\ Count(calls', "Ok") = 1)
       => /\ ~crashed'
          /\ Count(calls', "save_settings") = 1
          /\ to_str(Unwrap(settings'.last_config))
               = Some(ServerTokens(Unwrap(spawned'))[Len(FIXED_ARGS) + 3])
          /\ settings'.server_dir = settings.server_dir
          /\ disk' = JsonFile(Some(ServerTokens(Unwrap(spawned'))[Len(FIXED_ARGS) + 3]),
                              Unwrap(SerializeField(settings.server_dir)))]_vars

\* C4: a launch that reaches the executable check while the resolved server
\* executable does not exist spawns nothing, leaves the in-memory and stored
\* settings as they were, and reports the attempted path.
C4_MissingExeNoSpawn ==
  [][(LaunchStep /\ IsSome(Resolve(available_configs, selected_idx'))
        /\ server_exe_path(settings) \notin fs)
       => /\ spawned' = None
          /\ Count(calls', "spawn") = 0
          /\ settings' = settings
          /\ disk' = disk
          /\ ~crashed'
          /\ status' = <<"Server exe not found: ">> \o Display(server_exe_path(settings))
                         \o <<"\nSet the correct server directory.">>]_vars

C4_Witness ==
  /\ calls = <<"server_exe.exists">>
  /\ server_exe_path(settings) \notin fs
  /\ IsSome(settings.server_dir)
  /\ contains(status, Display(Join(Unwrap(settings.server_dir), SERVER_EXE)))

\* C5: when the OS rejects the spawn, the status carries the OS error
\* message, no save is made and the settings, in memory and stored, are what
\* they were before the launch.
C5_SpawnFailureKeepsSettings ==
  [][(LaunchStep /\ Count(calls', "Err") = 1)
       => /\ \E e \in OsErrors :
               /\ calls' = <<"server_exe.exists", "spawn", "Err">> \o e
               /\ status' = <<"Failed to launch: ">> \o e
          /\ Count(calls', "save_settings") = 0
          /\ settings' = settings
          /\ disk' = disk
          /\ ~crashed']_vars

C5_Witness ==
  /\ Count(calls, "Err") = 1
  /\ IsSome(spawned)
  /\ Head(status) = "Failed to launch: "
  /\ IsSome(settings.last_config)

\* C6: a launch with no selection, or with a selection out of range, sets
\* the matching status message and does nothing else: no executable check,
\* no spawn, and settings, available configs and selection stay as they were.
C6_BadSelectionAborts ==
  [][(Launch /\ ~IsSome(Resolve(available_configs, selected_idx)))
       => /\ status' = IF IsSome(selected_idx) THEN <<"Invalid selection.">>
                                               ELSE <<"Select a config first.">>
          /\ calls' = <<>>
          /\ spawned' = None
          /\ settings' = settings
          /\ disk' = disk
          /\ available_configs' = available_configs
          /\ selected_idx' = selected_idx
          /\ ~crashed']_vars

C6_Witness ==
  /\ status = <<"Invalid selection.">>
  /\ IsSome(selected_idx)
  /\ Unwrap(selected_idx) >= Len(available_configs)
  /\ calls = <<>>
  /\ server_exe_path(settings) \in fs

\* C7: the tokens handed to the spawned server are the executable path, the
\* fixed arguments, -config and the selected config path, in that order, the
\* config path being one element.
C7_TokensAreExactPaths ==
  IsSome(spawned)
    => ServerTokens(Unwrap(spawned))
         = <<JoinComponents(server_exe_path(settings))>> \o FIXED_ARGS
             \o << <<"-config">>, JoinComponents(Unwrap(Resolve(available_configs, selected_idx))) >>

\* The last step scanned the configs directory (at startup, on Refresh, on
\* Change).
ScanJustRan == Count(calls, "read_dir") = 1

IsSorted(v) == \A i, j \in DOMAIN v : i < j => PathCmp(v[i], v[j]) < 0

SortedJsonChildren(v, dir) ==
  /\ IsSorted(v)
  /\ \A i \in DOMAIN v :
       /\ IsSome(extension(v[i]))
       /\ to_lowercase(Unwrap(extension(v[i]))) = <<"j", "s", "o", "n">>
       /\ Parent(v[i]) = dir

\* C8: in every reachable state available_configs is sorted by full path,
\* holds only entries with the json extension (in any case) and only
\* immediate children of the current configs directory.
C8_AlwaysSortedJsonChildren == SortedJsonChildren(available_configs, configs_dir)

\* C8 as amended: the same, in the states a scan leaves behind.
C8_SortedJsonChildrenAfterScan ==
  ScanJustRan => SortedJsonChildren(available_configs, configs_dir)

C8_Witness ==
  /\ calls = <<"read_dir">>
  /\ Len(available_configs) = 2

IsRegularFile(p) == p \notin DirUniverse

Readable(dir) == dir \in fs /\ dir \notin unreadable

Range(v) == {v[i] : i \in DOMAIN v}

\* C9: a scan returns exactly the immediate children of the directory that
\* are regular files with the json extension (in any case), and nothing
\* when the directory is missing or unreadable.
C9_ScanListsRegularJsonFiles ==
  ScanJustRan
    => /\ Len(available_configs) = Cardinality(Range(available_configs))
       /\ Range(available_configs)
            = IF Readable(configs_dir)
                THEN {p \in fs : /\ Len(p) = Len(configs_dir) + 1
                                 /\ Parent(p) = configs_dir
                                 /\ IsRegularFile(p)
                                 /\ IsSome(extension(p))
                                 /\ to_lowercase(Unwrap(extension(p))) = <<"j", "s", "o", "n">>}
                ELSE {}

\* The directory of the example: a.json, B.JSON, c.txt and notes.md, just
\* scanned.
C10_ExampleScanned ==
  /\ ScanJustRan
  /\ configs_dir = ConfigsDir
  /\ Readable(ConfigsDir)
  /\ {p \in fs : Len(p) = 3 /\ Parent(p) = ConfigsDir}
       = {Join(ConfigsDir, n) : n \in {a_json, B_JSON, c_txt, notes_md}}

Before(v, p, q) ==
  \E i, j \in DOMAIN v : i < j /\ v[i] = p /\ v[j] = q

BothScanned(v) ==
  ScanJustRan /\ Contains(v, Join(ConfigsDir, a_json)) /\ Contains(v, Join(ConfigsDir, B_JSON))

\* C10: scanning a directory that holds a.json, B.JSON, c.txt and notes.md
\* yields [a.json, B.JSON]; the scan places a.json before B.JSON.
C10_ExampleYields_a_B ==
  /\ C10_ExampleScanned
       => available_configs = <<Join(ConfigsDir, a_json), Join(ConfigsDir, B_JSON)>>
  /\ BothScanned(available_configs)
       => Before(available_configs, Join(ConfigsDir, a_json), Join(ConfigsDir, B_JSON))

\* C10 as amended: the scan yields [B.JSON, a.json]; it places B.JSON
\* before a.json.
C10_ExampleYields_B_a ==
  /\ C10_ExampleScanned
       => available_configs = <<Join(ConfigsDir, B_JSON), Join(ConfigsDir, a_json)>>
  /\ BothScanned(available_configs)
       => Before(available_configs, Join(ConfigsDir, B_JSON), Join(ConfigsDir, a_json))

C10_Witness ==
  /\ C10_ExampleScanned
  /\ calls = <<"read_dir">>
  /\ Len(available_configs) = 2

\* The file name of an entry as the operator sees it in the directory.
NameOf(p) == p[Len(p)]

AllWhitespace(q) == \A i \in DOMAIN q : q[i] = " "

\* The file name holds the query, whatever the case of the letters.
NameHolds(p, q) == contains(to_lowercase(NameOf(p)), to_lowercase(q))

RECURSIVE Increasing(_, _)
\* The members of the set S of numbers from lo on, in increasing order.
Increasing(S, lo) ==
  IF \A x \in S : x < lo THEN <<>>
  ELSE IF lo \in S THEN <<lo>> \o Increasing(S, lo + 1)
  ELSE Increasing(S, lo + 1)

\* C11: the filter yields every index in order when the query is empty or
\* all whitespace, and otherwise exactly the indices, in increasing order, of
\* the entries whose file name holds the query case-insensitively.
C11_FilterMatchesFileNames ==
  filtered_indices(filter, available_configs)
    = IF AllWhitespace(filter)
        THEN Increasing(0..(Len(available_configs) - 1), 0)
        ELSE Increasing({i \in 0..(Len(available_configs) - 1) :
                           NameHolds(available_configs[i + 1], filter)}, 0)

\* C12: right after every scan the status is a non-empty text that holds
\* the path of the scanned directory when the scan found nothing, and is
\* empty when it found at least one entry.
C12_StatusNamesScannedDir ==
  ScanJustRan
    => IF Len(available_configs) = 0
         THEN status # <<>> /\ contains(status, JoinComponents(configs_dir))
         ELSE status = <<>>

C12_Witness ==
  /\ calls = <<"read_dir">>
  /\ configs_dir \notin fs
  /\ available_configs = <<>>
  /\ contains(status, JoinComponents(ConfigsDir))

\* The entries of the directory dir that a scan is to list.
Matching(f, unr, dir) ==
  IF dir \in f /\ dir \notin unr
    THEN {p \in f : /\ Len(p) = Len(dir) + 1
                    /\ Parent(p) = dir
                    /\ IsSome(extension(p))
                    /\ to_lowercase(Unwrap(extension(p))) = <<"j", "s", "o", "n">>}
    ELSE {}

\* v lists the members of S once each, in sorted order.
IsScanOf(v, S) == IsSorted(v) /\ Range(v) = S /\ Len(v) = Cardinality(S)

Without(v, p) == SelectSeq(v, LAMBDA x : x # p)

Occurrences(v, p) == Cardinality({i \in DOMAIN v : v[i] = p})

\* C13: a rescan replaces available_configs with the scan of the current
\* directory whatever the list held; a rescan of unchanged contents gives
\* the list again, and a rescan after one matching file was added gives the
\* previous list plus that file, once, at its sorted position.
C13_RescanReplaces ==
  [][ScanStep
       => LET now == Matching(fs, unreadable, configs_dir')
          IN  /\ IsScanOf(available_configs', now)
              /\ IsScanOf(available_configs, now)
                   => available_configs' = available_configs
              /\ \A p \in now :
                   IsScanOf(available_configs, now \ {p})
                     => /\ Without(available_configs', p) = available_configs
                        /\ Occurrences(available_configs', p) = 1
                        /\ IsSorted(available_configs')]_vars

\* A Refresh has dropped the entry Browse config had added from another
\* directory.
C13_Witness ==
  /\ calls = <<"read_dir">>
  /\ configs_dir = ExeDir
  /\ available_configs = <<>>
  /\ IsSome(selected_idx)

\* C14: no failure terminates the launcher: every handler completes and
\* leaves the launcher running.
C14_NoFailureTerminates == ~crashed

\* The launcher has just started.
JustStarted == calls = <<"read_to_string", "read_dir">>

\* C15: settings.json is read at startup only; it is written by every
\* successful launch and every change of the server folder and by no other
\* handler; and what it holds is the in-memory settings between handlers.
C15_StoreFollowsSettings ==
  /\ [][/\ Count(calls', "read_to_string") = 0
        /\ (Count(calls', "fs::write") = 1)
             <=> ((LaunchStep /\ Count(calls', "Ok") = 1) \/ SetServerFolder)]_vars
  /\ [](load_settings(has_project_dirs, disk) = settings)

\* C16: what save_settings stores, load_settings reads back as the record
\* that was saved; and load_settings gives the default record when the
\* stored document is missing, unreadable or not a settings document.
C16_SaveThenLoad ==
  /\ [][(Count(calls', "save_settings") = 1 /\ has_project_dirs /\ writable)
          => /\ ~crashed'
             /\ load_settings(has_project_dirs, disk') = settings']_vars
  /\ []((JustStarted /\ (disk.kind # "json" \/ ~has_project_dirs))
          => settings = DefaultSettings)

\* The server directory the settings s resolve to.
ResolvedDir(s) == IF IsSome(s.server_dir) THEN Unwrap(s.server_dir) ELSE ExeDir

\* C17: a launch checks and spawns the executable SERVER_EXE of the server
\* folder of the settings when one is set and of the launcher's own
\* directory otherwise, with that directory as the working directory of the
\* child; the server folder changes only by Set server folder, to the folder
\* picked.
C17_LaunchUsesServerDir ==
  [][/\ (LaunchStep /\ IsSome(spawned'))
          => /\ Unwrap(spawned').current_dir = ResolvedDir(settings)
             /\ ServerTokens(Unwrap(spawned'))[1]
                  = JoinComponents(ResolvedDir(settings)) \o <<Sep>> \o SERVER_EXE
             /\ Append(ResolvedDir(settings), SERVER_EXE) \in fs
     /\ (LaunchStep /\ IsSome(Resolve(available_configs, selected_idx'))
           /\ Append(ResolvedDir(settings), SERVER_EXE) \in fs)
          => IsSome(spawned')
     /\ settings'.server_dir # settings.server_dir => SetServerFolder
     /\ SetServerFolder => \E d \in Folders : settings'.server_dir = Some(d)]_vars

\* A launch from the folder that Set server folder had set.
C17_Witness ==
  /\ IsSome(spawned)
  /\ Unwrap(spawned).current_dir = ConfigsDir
  /\ settings.server_dir = Some(ConfigsDir)
  /\ disk = JsonFile(None, Some(JoinComponents(ConfigsDir)))

\* The tokens as one line, separated by blanks, the last one in double
\* quotes.
Rendered(tokens) ==
  JoinWith(SubSeq(tokens, 1, Len(tokens) - 1)
             \o << <<"\"">> \o tokens[Len(tokens)] \o <<"\"">> >>, <<" ">>)

\* C18: a preview is shown exactly when the selection is present and in
\* range, and it renders the tokens a launch in that state passes to the
\* process (executable, fixed arguments, -config, config path), only the
\* config path in double quotes.
C18_PreviewMatchesLaunch ==
  LET shown == Preview(settings, available_configs, selected_idx)
      cfg == Resolve(available_configs, selected_idx)
  IN  /\ IsSome(shown) <=> IsSome(cfg)
      /\ IsSome(cfg)
           => Unwrap(shown)
                = Rendered(ServerTokens(BuildCommand(server_exe_path(settings), Unwrap(cfg))))
      /\ IsSome(spawned) => shown = Some(Rendered(ServerTokens(Unwrap(spawned))))

\* A launch of a config whose name is not valid Unicode, and its preview.
C18_Witness ==
  /\ IsSome(spawned)
  /\ Resolve(available_configs, selected_idx) = Some(Join(ConfigsDir, u_json))
  /\ IsSome(Preview(settings, available_configs, selected_idx))
  /\ IsSome(settings.server_dir)

\* C19: at startup the default configs directory is scanned and the
\* selection is the index of the entry equal to the loaded last_config when
\* the scan lists one, and none otherwise; startup leaves the settings as
\* loaded and saves nothing.
C19_StartupSelectsLastConfig ==
  JustStarted
    => /\ configs_dir = Join(ExeDir, DEFAULT_CONFIGS_DIR)
       /\ settings = load_settings(has_project_dirs, disk)
       /\ Count(calls, "save_settings") = 0
       /\ IF IsSome(settings.last_config)
               /\ Unwrap(settings.last_config) \in Range(available_configs)
            THEN /\ IsSome(selected_idx)
                 /\ Resolve(available_configs, selected_idx) = settings.last_config
            ELSE selected_idx = None

C19_Witness ==
  /\ JustStarted
  /\ Len(available_configs) = 2
  /\ selected_idx = Some(0)
  /\ settings.last_config = Some(Join(ConfigsDir, a_json))

NoDuplicates(v) == \A i, j \in DOMAIN v : i # j => v[i] # v[j]

\* C20: available_configs never holds two equal paths; Browse config adds
\* the picked file only when the list does not hold it, and leaves the
\* selection present, in range and resolving to the picked file.
C20_NoDuplicatesBrowseSelects ==
  /\ [](NoDuplicates(available_configs))
  /\ [][BrowseConfig
         => \E file \in Files :
              /\ available_configs'
                   = IF file \in Range(available_configs)
                       THEN available_configs
                       ELSE available_configs \o <<file>>
              /\ IsSome(selected_idx')
              /\ Unwrap(selected_idx') < Len(available_configs')
              /\ Resolve(available_configs', selected_idx') = Some(file)]_vars

\* Browse config has picked a file the list already held, after both
\* entries of the list had come from Browse config.
C20_Witness ==
  /\ calls = <<"pick_file">>
  /\ configs_dir = ExeDir
  /\ Len(available_configs) = 2
  /\ selected_idx = Some(0)

====
